---- MODULE Spec2Model ----
(***************************************************************************)
(* Model of the SBP payment service (app/services/payment_service.py,      *)
(* app/services/sberbank_service.py, app/services/atol_service.py,         *)
(* app/models/payment.py).                                                 *)
(*                                                                         *)
(* Every HTTP request runs PaymentService on its own AsyncSession.  A      *)
(* request is a process slot p: proc[p].pc is the await point it stands    *)
(* at, proc[p].sess is the PaymentLog object held by its session (with     *)
(* expire_on_commit=False a later SELECT of the same row returns the       *)
(* object already loaded, not the row's fresh columns), and a commit       *)
(* writes the columns whose value differs from the loaded one.             *)
(* payments is table PAY_SBP_LOG2, fee is table FEE, receipts is the log   *)
(* of calls made to AtolService.send_fiscal_receipt.                       *)
(* HandlerSpec is the route POST /api/v1/callback                           *)
(* (app/api/v1/endpoints/callback.py, app/api/dependencies.py), GwSpec the  *)
(* gateway client on its own, MapSpec the two mapping functions,            *)
(* ReconcileSpec process_callback_payment over a store that can fail.      *)
(* now is the reading of the system clock; ClockSpec is create_payment     *)
(* under a clock that advances.                                            *)
(***************************************************************************)
EXTENDS Integers, Sequences, FiniteSets, TLC

VARIABLES payments, fee, receipts, proc, started, now

vars == <<payments, fee, receipts, proc, started, now>>

----------------------------------------------------------------------------
(* Bounds of the model *)

NumProcs == 2

MaxRequests == 2

MaxPayments == 2

(* The last instant of the clock *)
MaxClock == 2

Procs == 1..NumProcs

----------------------------------------------------------------------------
(* PaymentState, models/payment.py *)

PaymentState ==
    {"PAID", "CREATED", "REVERSED", "REFUNDED", "REVOKED", "DECLINED",
     "EXPIRED", "AUTHORIZED", "CONFIRMED", "ON_PAYMENT"}

TerminalStates == {"DECLINED", "REFUNDED", "EXPIRED", "REVOKED"}

NULL == "NULL"

NullUid == 0

(* A table that sends the codes it does not list to DECLINED *)
_map_sberbank_status_unknown_declined(status) ==
    CASE status = 0 -> "CREATED"
      [] status = 1 -> "AUTHORIZED"
      [] status = 2 -> "PAID"
      [] status = 3 -> "DECLINED"
      [] status = 4 -> "REFUNDED"
      [] status = 5 -> "ON_PAYMENT"
      [] status = 6 -> "DECLINED"
      [] OTHER -> "DECLINED"

(* status_map.get(status, CREATED) *)
_map_sberbank_status(status) ==
    CASE status = 0 -> "CREATED"
      [] status = 1 -> "AUTHORIZED"
      [] status = 2 -> "PAID"
      [] status = 3 -> "DECLINED"
      [] status = 4 -> "REFUNDED"
      [] status = 5 -> "ON_PAYMENT"
      [] status = 6 -> "DECLINED"
      [] OTHER -> "CREATED"

(* A table that takes declinedByTimeout for a decline *)
_map_operation_to_status_timeout_declined(operation) ==
    CASE operation = "created" -> "CREATED"
      [] operation = "approved" -> "AUTHORIZED"
      [] operation = "deposited" -> "PAID"
      [] operation = "reversed" -> "DECLINED"
      [] operation = "refunded" -> "REFUNDED"
      [] operation = "declinedByTimeout" -> "DECLINED"
      [] operation = "subscriptionCreated" -> "PAID"
      [] OTHER -> "CREATED"

(* operation_map.get(operation, CREATED) *)
_map_operation_to_status(operation) ==
    CASE operation = "created" -> "CREATED"
      [] operation = "approved" -> "AUTHORIZED"
      [] operation = "deposited" -> "PAID"
      [] operation = "reversed" -> "DECLINED"
      [] operation = "refunded" -> "REFUNDED"
      [] operation = "declinedByTimeout" -> "EXPIRED"
      [] operation = "subscriptionCreated" -> "PAID"
      [] OTHER -> "CREATED"

----------------------------------------------------------------------------
(* Tables *)

(* An amount that is None; like 0 it is false in "amount or ..." *)
NoAmount == 0

(* A row of PAY_SBP_LOG2; its sbp_id is its index in payments. *)
Row(account, uid, order_id, state) ==
    [account |-> account, uid |-> uid, order_id |-> order_id,
     order_state |-> state, error_code |-> NULL,
     error_description |-> NULL, order_form_url |-> NULL,
     rq_uid |-> NULL, order_sum |-> NoAmount]

NoRow == Row(NULL, NullUid, NULL, NULL)

(* datetime.isoformat(): the text of an instant, one text per instant *)
Isoformat(t) == <<"iso", t>>

(* hashlib.md5(...).hexdigest(): 32 hexadecimal digits, taken here to be
   different for different texts *)
Md5Hex(text) == <<"md5", text>>

(* _generate_rq_uid at instant t: the digest has 32 characters already,
   so the loop that pads with random digits never runs. *)
_generate_rq_uid(t) == Md5Hex(Isoformat(t))


(* A lookup that does not filter by the account: every account has a
   customer. *)
_get_customer_uid_any(account) == 1

(* Table CUSTOMER: SELECT uid FROM CUSTOMER WHERE pin = :account LIMIT 1 *)
_get_customer_uid(account) ==
    CASE account = "100001" -> 1
      [] OTHER -> NullUid

(* The columns of the unique indexes declared on FEE: XPKFEE(uid, fid). *)
FeeUniqueIndexes == {{"uid", "fid"}}

(* A FEE row as the insert of _insert_to_fee builds it; fid is assigned
   by autoincrement. *)
FeeRow(fid, uid, comment) ==
    [fid |-> fid, uid |-> uid, comment |-> comment, ticket_id |-> "SBP"]

(* INSERT IGNORE drops the row when it collides with an existing row on
   every column of some unique index. *)
FeeConflict(table, row) ==
    \E idx \in FeeUniqueIndexes :
        \E i \in 1..Len(table) : \A c \in idx : table[i][c] = row[c]

(* select(PaymentLog).where(PaymentLog.order_id == order_id): the sbp_id
   of the matching row, 0 when there is none. *)
_get_payment_by_order_id(order_id) ==
    IF \E i \in 1..Len(payments) : payments[i].order_id = order_id
    THEN CHOOSE i \in 1..Len(payments) : payments[i].order_id = order_id
    ELSE 0

(* A lookup that gives the newest row when no row has the sbp_id *)
_get_payment_by_id_or_latest(sbp_id) ==
    IF sbp_id \in 1..Len(payments) THEN sbp_id ELSE Len(payments)

(* select(PaymentLog).where(PaymentLog.sbp_id == sbp_id) *)
_get_payment_by_id(sbp_id) ==
    IF sbp_id \in 1..Len(payments) THEN sbp_id ELSE 0

(* int(order_number): the number, or -1 for ValueError *)
ParseInt(s) ==
    CASE s = "1" -> 1
      [] s = "2" -> 2
      [] s = "3" -> 3
      [] OTHER -> -1

----------------------------------------------------------------------------
(* SberbankService: the gateway client *)

Methods == {"create_qr_code", "get_payment_status", "cancel_payment", "refund_payment"}

(* What one HTTP exchange with the gateway can end in: a parsed body with
   errorCode "0" ("ok", and "nopayload" when externalParams.sbpPayload is
   missing), a parsed body with another errorCode ("biz"), a timeout, a
   connection failure, a 4xx/5xx status, or a body that is not JSON. *)
TransportKinds == {"timeout", "connect"}

ErrorKinds == TransportKinds \cup {"http_status", "bad_json"}

BodyKinds == {"ok", "nopayload", "biz"}

PollStatuses == {0, 2, 3, 7}

Outcomes ==
    [kind : BodyKinds \cup ErrorKinds, orderStatus : {0}]
    \cup [kind : {"ok"}, orderStatus : PollStatuses]

(* The parsed response body after _filter_null_values *)
Response(out) ==
    [errorCode |-> IF out.kind = "biz" THEN "5" ELSE "0",
     errorMessage |-> IF out.kind = "biz" THEN "gw_msg" ELSE NULL,
     orderId |-> IF out.kind = "biz" THEN NULL ELSE "o3",
     sbpPayload |-> IF out.kind = "ok" THEN "qr" ELSE NULL,
     orderStatus |-> out.orderStatus]

NoCall == [tag |-> "none", kind |-> "none", body |-> Response([kind |-> "biz", orderStatus |-> 0])]

(* A client that posts again, up to three times, after a 4xx/5xx status
   or an unreadable body. *)
PostAttempts_retry_all(method, out) ==
    IF out.kind \in {"http_status", "bad_json"} THEN 3 ELSE 1

(* Number of self.client.post calls one invocation of a client method
   makes: each method posts once and has no loop around it. *)
PostAttempts(method, out) == 1

(* create_qr_code: a body with errorCode other than "0" raises
   SberbankAPIException; any other exception reaches the clause
   "except httpx.Timeout", whose class is not an exception class, so the
   match itself raises TypeError. *)
create_qr_code(out) ==
    IF out.kind \in ErrorKinds
    THEN [tag |-> "TypeError", kind |-> out.kind, body |-> NoCall.body]
    ELSE IF Response(out).errorCode # "0"
         THEN [tag |-> "SberbankAPIException", kind |-> out.kind, body |-> Response(out)]
         ELSE [tag |-> "return", kind |-> out.kind, body |-> Response(out)]

(* A client that swallows timeouts and connection failures and hands
   back an error body instead of raising. *)
simple_call_swallow(out) ==
    IF out.kind \in {"http_status", "bad_json"}
    THEN [tag |-> "SberbankAPIException", kind |-> out.kind, body |-> NoCall.body]
    ELSE IF out.kind \in TransportKinds
    THEN [tag |-> "return", kind |-> out.kind, body |-> NoCall.body]
    ELSE [tag |-> "return", kind |-> out.kind, body |-> Response(out)]

(* get_payment_status, cancel_payment, refund_payment: the body is
   returned whatever its errorCode; httpx.HTTPError and every other
   exception become SberbankAPIException. *)
simple_call(out) ==
    IF out.kind \in ErrorKinds
    THEN [tag |-> "SberbankAPIException", kind |-> out.kind, body |-> NoCall.body]
    ELSE [tag |-> "return", kind |-> out.kind, body |-> Response(out)]

ClientCall(method, out) ==
    IF method = "create_qr_code" THEN create_qr_code(out) ELSE simple_call(out)

(* The parameters each method declares: the four methods of the client
   and PaymentService.process_callback_payment. *)
Params(method) ==
    CASE method = "create_qr_code" ->
            {"order_number", "amount", "description", "email", "source_payments"}
      [] method = "get_payment_status" -> {"order_id"}
      [] method = "cancel_payment" -> {"order_id"}
      [] method = "refund_payment" -> {"order_id", "amount"}
      [] method = "process_callback_payment" ->
            {"order_id", "order_number", "operation", "status", "additional_params"}

(* The parameters that have a default value *)
Defaults(method) ==
    IF method = "process_callback_payment" THEN {"additional_params"} ELSE {}

(* The arguments passed at the call of each method: by PaymentService
   for the client's methods, by handle_payment_callback for
   process_callback_payment. *)
Args(method) ==
    CASE method = "create_qr_code" ->
            {"order_number", "amount", "description", "email"}
      [] method = "get_payment_status" -> {"order_id"}
      [] method = "cancel_payment" -> {"order_id"}
      [] method = "refund_payment" -> {"order_id", "amount"}
      [] method = "process_callback_payment" ->
            {"md_order", "order_number", "operation", "status", "additional_params"}

(* A call binds when every parameter without a default gets an argument
   and every argument names a parameter; otherwise Python raises
   TypeError before the body of the method runs. *)
Binds(method) ==
    /\ Args(method) \subseteq Params(method)
    /\ (Params(method) \ Defaults(method)) \subseteq Args(method)

(* PaymentService's call of a client method while the gateway is ready
   to answer with out: what the call gives back and how many posts it
   made. *)
ServiceCall(method, out) ==
    IF Binds(method)
    THEN ClientCall(method, out)
    ELSE [tag |-> "TypeError", kind |-> out.kind, body |-> NoCall.body]

ServicePosts(method, out) ==
    IF Binds(method) THEN PostAttempts(method, out) ELSE 0

----------------------------------------------------------------------------
(* Requests *)

NoOp == [kind |-> "none", account |-> NULL, order_id |-> NULL,
         order_number |-> NULL, operation |-> NULL, status |-> 0,
         amount |-> NoAmount]

NoRes == [tag |-> "none", success |-> FALSE, status |-> NULL,
          order_id |-> NULL, qr |-> NULL, refund_amount |-> NoAmount,
          message |-> NULL]

(* A JSON body of a notification; NULL is a field that is missing or
   empty, NoStatus a status that is missing. *)
NoStatus == -1

Body(mdOrder, orderNumber, operation, status) ==
    [json |-> TRUE, mdOrder |-> mdOrder, orderNumber |-> orderNumber,
     operation |-> operation, status |-> status]

(* A body that request.json() cannot parse *)
NotJson == [Body(NULL, NULL, NULL, NoStatus) EXCEPT !.json = FALSE]

(* What handle_payment_callback reads of its HTTP request and of the
   settings: request.client.host, settings.CALLBACK_SECRET, the header
   X-Signature (<<>> when it is absent) and the body. *)
NoHttp == [client_ip |-> NULL, secret |-> "", signature |-> <<>>, body |-> NotJson]

Idle == [pc |-> "idle", op |-> NoOp, http |-> NoHttp, sid |-> 0, sess |-> NoRow,
         was |-> NULL, posts |-> 0, gw |-> NoCall, fid |-> 0, atol |-> "none",
         res |-> NoRes, logged |-> NULL]

Accounts == {"100001", "999999"}

(* request.amount of a create, in kopecks *)
Amounts == {10000, 25000}

(* request.amount of a refund: NoAmount when the body gives none *)
RefundAmounts == {NoAmount, 4000}

OrderIds == {"o1", "o9"}

OrderNumbers == {"1", "2", "zz"}

Operations == {"deposited", "subscriptionCreated", "reversed", "approved", "bogus"}

CallbackStatuses == {0, 1}

(* The session's commit of setattr(payment, key, value) for the keys of
   ch: the UPDATE carries the columns whose new value differs from the
   value the session loaded. *)
Flush(row, sess, ch) ==
    [f \in DOMAIN row |->
        IF f \in DOMAIN ch /\ ch[f] # sess[f] THEN ch[f] ELSE row[f]]

SetAttrs(sess, ch) ==
    [f \in DOMAIN sess |-> IF f \in DOMAIN ch THEN ch[f] ELSE sess[f]]

(* _update_payment_by_id on the row the session of p holds *)
UpdatedPayments(p, ch) ==
    [payments EXCEPT ![proc[p].sid] = Flush(@, proc[p].sess, ch)]

Exc == [NoRes EXCEPT !.tag = "PaymentException", !.message = "failed"]

Done(p, res) == [proc[p] EXCEPT !.pc = "done", !.res = res]

(* The request p once its gateway call, which posted n times, is over *)
Called(p, call, n) == [proc[p] EXCEPT !.gw = call, !.posts = @ + n]

Ret(q, res) == [q EXCEPT !.pc = "done", !.res = res]

(* The row the success path of create_payment leaves behind *)
CreatedRow(account, uid, order_id) ==
    [Row(account, uid, order_id, "CREATED") EXCEPT
        !.error_code = "0", !.order_form_url = "qr"]

(* PAY_SBP_LOG2 outlives the process (init_db creates only missing
   tables): it holds the row of an order registered earlier. *)
Init ==
    /\ payments = <<[CreatedRow("100001", 1, "o1") EXCEPT
                        !.rq_uid = _generate_rq_uid(-1),
                        !.order_sum = 10000]>>
    /\ fee = <<>>
    /\ receipts = <<>>
    /\ proc = [p \in Procs |-> Idle]
    /\ started = 0
    /\ now = 0

----------------------------------------------------------------------------
(* create_payment *)

(* payment_data of create_payment; amounts are counted in kopecks *)
PaymentData(account, rq_uid, amount) ==
    [Row(account, NullUid, NULL, "CREATED") EXCEPT
        !.rq_uid = rq_uid, !.order_sum = amount]

(* A _create_payment_log that adds the object to the session and does
   not commit: the store has no row yet. *)
_create_payment_log_uncommitted(payment_data) == payments

(* _create_payment_log: db.add, commit, refresh; the store after it *)
_create_payment_log(payment_data) == Append(payments, payment_data)

(* _generate_rq_uid, payment_data, _create_payment_log: the INSERT is
   committed and the session keeps the new object.  No index of
   PAY_SBP_LOG2 but the primary key is unique (Index("trans_id", "rq_uid")
   is not), so the INSERT never conflicts. *)
CreateLog(p, account, amount) ==
    /\ proc[p].pc = "idle"
    /\ started < MaxRequests
    /\ LET payment_data == PaymentData(account, _generate_rq_uid(now), amount) IN
       /\ payments' = _create_payment_log(payment_data)
       /\ proc' = [proc EXCEPT ![p] =
            [Idle EXCEPT !.pc = "cr_lookup",
                         !.op = [NoOp EXCEPT !.kind = "create", !.account = account,
                                             !.amount = amount],
                         !.sid = Len(payments) + 1,
                         !.was = "CREATED",
                         !.sess = payment_data]]
    /\ started' = started + 1
    /\ UNCHANGED <<fee, receipts, now>>

StartCreate(p, account, amount) ==
    /\ Len(payments) < MaxPayments
    /\ CreateLog(p, account, amount)

(* _get_customer_uid and the unknown-payer branch *)
CreateLookup(p) ==
    /\ proc[p].pc = "cr_lookup"
    /\ LET customer_uid == _get_customer_uid(proc[p].op.account) IN
       IF customer_uid = NullUid
       THEN /\ payments' = UpdatedPayments(p,
                    [error_description |-> "user_not_found", order_state |-> "DECLINED"])
            /\ proc' = [proc EXCEPT ![p] =
                    [Done(p, [NoRes EXCEPT !.tag = "return", !.status = "DECLINED"])
                        EXCEPT !.sess = SetAttrs(@, [error_description |-> "user_not_found",
                                                     order_state |-> "DECLINED"])]]
       ELSE /\ proc' = [proc EXCEPT ![p].pc = "gw"]
            /\ UNCHANGED payments
    /\ UNCHANGED <<fee, receipts, started, now>>

(* create_payment after create_qr_code has returned or raised *)
CreateAfterCall(p, q, call) ==
    LET uid == _get_customer_uid(proc[p].op.account)
        body == call.body
        declined == [NoRes EXCEPT !.tag = "return", !.status = "DECLINED"]
        base == [uid |-> uid, error_code |-> body.errorCode]
        business == base @@ [error_description |-> body.errorMessage,
                             order_state |-> "DECLINED"]
        nopayload == base @@ [error_description |-> "no_payload",
                              order_state |-> "DECLINED"]
        created == base @@ [order_form_url |-> body.sbpPayload,
                            order_id |-> body.orderId]
    IN
    IF call.tag # "return"
    THEN /\ payments' = payments
         /\ proc' = [proc EXCEPT ![p] = Ret(q, Exc)]
    ELSE IF body.errorCode # "0"
    THEN /\ payments' = UpdatedPayments(p, business)
         /\ proc' = [proc EXCEPT ![p] =
                [Ret(q, declined) EXCEPT !.sess = SetAttrs(@, business)]]
    ELSE IF body.sbpPayload = NULL
    THEN /\ payments' = UpdatedPayments(p, nopayload)
         /\ proc' = [proc EXCEPT ![p] =
                [Ret(q, [declined EXCEPT !.order_id = body.orderId])
                    EXCEPT !.sess = SetAttrs(@, nopayload)]]
    ELSE /\ payments' = UpdatedPayments(p, created)
         /\ proc' = [proc EXCEPT ![p] =
                [Ret(q, [NoRes EXCEPT !.tag = "return", !.success = TRUE,
                                      !.status = "CREATED",
                                      !.order_id = body.orderId,
                                      !.qr = body.sbpPayload])
                    EXCEPT !.sess = SetAttrs(@, created)]]

----------------------------------------------------------------------------
(* get_payment_status, cancel_payment, refund_payment *)

(* payment = _get_payment_by_order_id(order_id), and PaymentException
   "Payment not found" when there is none: the request as it stands
   before its gateway call. *)
(* A lookup that answers an unknown order id with an empty response *)
PaymentNotFound_returns(kind) == [NoRes EXCEPT !.tag = "return"]

(* raise PaymentException("Payment not found"): the clause
   "except PaymentException: raise" passes it on as it is. *)
PaymentNotFound(kind) == [Exc EXCEPT !.message = "Payment not found"]

Lookup(kind, order_id) ==
    LET sid == _get_payment_by_order_id(order_id)
        req == [Idle EXCEPT !.op = [NoOp EXCEPT !.kind = kind, !.order_id = order_id]]
    IN
    IF sid = 0
    THEN [req EXCEPT !.pc = "done", !.res = PaymentNotFound(kind)]
    ELSE [req EXCEPT !.pc = "gw", !.sid = sid, !.sess = payments[sid],
                     !.was = payments[sid].order_state]

StartStatus(p, order_id) ==
    /\ proc[p].pc = "idle"
    /\ started < MaxRequests
    /\ proc' = [proc EXCEPT ![p] = Lookup("status", order_id)]
    /\ started' = started + 1
    /\ UNCHANGED <<payments, fee, receipts, now>>

StartCancel(p, order_id) ==
    /\ proc[p].pc = "idle"
    /\ started < MaxRequests
    /\ proc' = [proc EXCEPT ![p] = Lookup("cancel", order_id)]
    /\ started' = started + 1
    /\ UNCHANGED <<payments, fee, receipts, now>>

StartRefund(p, order_id, amount) ==
    /\ proc[p].pc = "idle"
    /\ started < MaxRequests
    /\ proc' = [proc EXCEPT ![p] =
            [Lookup("refund", order_id) EXCEPT !.op.amount = amount]]
    /\ started' = started + 1
    /\ UNCHANGED <<payments, fee, receipts, now>>

(* A poll that lets an exception of the gateway client reach its caller *)
AfterPollFailure_raises(resp) == Exc

(* What get_payment_status gives back after the gateway client has
   raised: "except Exception" logs a warning and the response resp is
   built all the same. *)
AfterPollFailure(resp) == resp

(* get_payment_status after the gateway call: the response is always a
   success; a new status is set on the session's object only. *)
StatusAfterCall(p, q, call) ==
    LET body == call.body
        new_status == _map_sberbank_status(body.orderStatus)
        ret(st) == [NoRes EXCEPT !.tag = "return", !.success = TRUE, !.status = st,
                                 !.order_id = proc[p].sess.order_id]
    IN
    IF call.tag = "return" /\ body.errorCode = "0"
    THEN /\ payments' = UpdatedPayments(p,
                [error_code |-> NULL, error_description |-> NULL])
         /\ proc' = [proc EXCEPT ![p] =
                [Ret(q, ret(new_status)) EXCEPT
                    !.sess = SetAttrs(@, [error_code |-> NULL,
                                          error_description |-> NULL,
                                          order_state |-> new_status])]]
    ELSE /\ payments' = payments
         /\ proc' = [proc EXCEPT ![p] =
                Ret(q, IF call.tag # "return"
                       THEN AfterPollFailure(ret(proc[p].sess.order_state))
                       ELSE ret(proc[p].sess.order_state))]

(* cancel_payment after the gateway call *)
CancelAfterCall(p, q, call) ==
    LET body == call.body
        ok == [NoRes EXCEPT !.tag = "return", !.success = TRUE, !.status = "DECLINED",
                            !.order_id = proc[p].op.order_id]
        failed == [order_state |-> "DECLINED", error_code |-> body.errorCode,
                   error_description |-> body.errorMessage]
    IN
    IF call.tag # "return"
    THEN /\ payments' = payments
         /\ proc' = [proc EXCEPT ![p] = Ret(q, Exc)]
    ELSE IF body.errorCode # "0"
    THEN /\ payments' = UpdatedPayments(p, failed)
         /\ proc' = [proc EXCEPT ![p] =
                [Ret(q, ok) EXCEPT !.sess = SetAttrs(@, failed)]]
    ELSE /\ payments' = UpdatedPayments(p, [order_state |-> "DECLINED"])
         /\ proc' = [proc EXCEPT ![p] =
                [Ret(q, ok) EXCEPT !.sess = SetAttrs(@, [order_state |-> "DECLINED"])]]

(* refund_payment after the gateway call, up to the final update *)
RefundAfterCall(p, q, call) ==
    LET body == call.body
        failed == [order_state |-> "DECLINED", error_code |-> body.errorCode,
                   error_description |-> body.errorMessage]
    IN
    IF call.tag # "return"
    THEN /\ payments' = payments
         /\ proc' = [proc EXCEPT ![p] = Ret(q, Exc)]
    ELSE IF body.errorCode # "0"
    THEN /\ payments' = UpdatedPayments(p, failed)
         /\ proc' = [proc EXCEPT ![p] =
                [q EXCEPT !.pc = "rf_upd", !.sess = SetAttrs(@, failed)]]
    ELSE /\ payments' = payments
         /\ proc' = [proc EXCEPT ![p] = [q EXCEPT !.pc = "rf_upd"]]

(* refund_amount_kopecks: amount or Decimal(str(payment.order_sum)) *)
RefundAmount(p) ==
    IF proc[p].op.amount # NoAmount THEN proc[p].op.amount
    ELSE proc[p].sess.order_sum

(* A final update that also takes the refunded amount off the record *)
RefundStateUpdate_reduces_sum(p) ==
    [order_state |-> "REFUNDED",
     order_sum |-> proc[p].sess.order_sum - RefundAmount(p)]

(* The columns of the final update of refund_payment (and
   operation_date_time, which the model leaves out) *)
RefundStateUpdate(p) == [order_state |-> "REFUNDED"]

(* refund_payment: the final update to REFUNDED and the response *)
RefundUpdate(p) ==
    /\ proc[p].pc = "rf_upd"
    /\ payments' = UpdatedPayments(p, RefundStateUpdate(p))
    /\ proc' = [proc EXCEPT ![p] =
            [Done(p, [NoRes EXCEPT !.tag = "return", !.success = TRUE,
                                   !.status = "REFUNDED",
                                   !.order_id = proc[p].op.order_id,
                                   !.refund_amount = RefundAmount(p)])
                EXCEPT !.sess = SetAttrs(@, RefundStateUpdate(p))]]
    /\ UNCHANGED <<fee, receipts, started, now>>

MethodOf(kind) ==
    CASE kind = "create" -> "create_qr_code"
      [] kind = "status" -> "get_payment_status"
      [] kind = "cancel" -> "cancel_payment"
      [] kind = "refund" -> "refund_payment"

(* The await of the gateway client's method and the code that follows it *)
Gateway(p, out) ==
    /\ proc[p].pc = "gw"
    /\ LET method == MethodOf(proc[p].op.kind)
           call == ServiceCall(method, out)
           q == Called(p, call, ServicePosts(method, out))
       IN
       CASE proc[p].op.kind = "create" -> CreateAfterCall(p, q, call)
         [] proc[p].op.kind = "status" -> StatusAfterCall(p, q, call)
         [] proc[p].op.kind = "cancel" -> CancelAfterCall(p, q, call)
         [] proc[p].op.kind = "refund" -> RefundAfterCall(p, q, call)
    /\ UNCHANGED <<fee, receipts, started, now>>

----------------------------------------------------------------------------
(* process_callback_payment *)

None == [NoRes EXCEPT !.tag = "return"]

(* A lookup that tries int(order_number) first and order_id after it *)
FindPayment_number_first(order_id, order_number) ==
    LET sbp_id == ParseInt(order_number)
        by_id == IF sbp_id = -1 THEN 0 ELSE _get_payment_by_id(sbp_id)
    IN
    IF by_id # 0 THEN by_id ELSE _get_payment_by_order_id(order_id)

(* The lookup of process_callback_payment: by order_id, and when that
   finds nothing by int(order_number); 0 when there is no record. *)
FindPayment(order_id, order_number) ==
    LET by_order == _get_payment_by_order_id(order_id)
        sbp_id == ParseInt(order_number)
    IN
    IF by_order # 0 THEN by_order
    ELSE IF sbp_id = -1 THEN 0
    ELSE _get_payment_by_id(sbp_id)

(* The request as it stands after the lookup, before its update *)
CallbackLookup(order_id, order_number, operation, status) ==
    LET sid == FindPayment(order_id, order_number)
        req == [Idle EXCEPT !.op = [NoOp EXCEPT !.kind = "callback",
                                                !.order_id = order_id,
                                                !.order_number = order_number,
                                                !.operation = operation,
                                                !.status = status]]
    IN
    IF sid = 0
    THEN [req EXCEPT !.pc = "done", !.res = None]
    ELSE [req EXCEPT !.pc = "cb_upd", !.sid = sid, !.sess = payments[sid],
                     !.was = payments[sid].order_state]

StartCallback(p, order_id, order_number, operation, status) ==
    /\ proc[p].pc = "idle"
    /\ started < MaxRequests
    /\ proc' = [proc EXCEPT ![p] =
            CallbackLookup(order_id, order_number, operation, status)]
    /\ started' = started + 1
    /\ UNCHANGED <<payments, fee, receipts, now>>

(* if operation == "deposited" and new_status == PaymentState.PAID *)
TriggersFiscalization(operation, new_status) ==
    operation = "deposited" /\ new_status = "PAID"

(* An update of the failure branch that declines the record as well *)
CallbackFailedUpdate_declines(status) ==
    [order_state |-> "DECLINED", error_description |-> "cb_failed"]

(* The columns process_callback_payment writes when status != 1; the
   entry for order_state is commented out. *)
CallbackFailedUpdate(status) == [error_description |-> "cb_failed"]

(* An update that stores the notification's mdOrder on the record *)
CallbackStateUpdate_sets_order_id(op, new_status) ==
    [order_state |-> new_status, order_id |-> op.order_id]

(* The columns process_callback_payment writes when status = 1 (and
   operation_date_time, which the model leaves out) *)
CallbackStateUpdate(op, new_status) == [order_state |-> new_status]

(* The update of the record: the error description when status != 1,
   else the mapped state; then, for "deposited", the second lookup by
   order_id that feeds _process_paid_payment. *)
CallbackUpdate(p) ==
    /\ proc[p].pc = "cb_upd"
    /\ LET op == proc[p].op
           new_status == _map_operation_to_status(op.operation)
           updated == _get_payment_by_order_id(op.order_id)
       IN
       IF op.status # 1
       THEN /\ payments' = UpdatedPayments(p, CallbackFailedUpdate(op.status))
            /\ proc' = [proc EXCEPT ![p] =
                    [Done(p, None) EXCEPT
                        !.sess = SetAttrs(@, CallbackFailedUpdate(op.status))]]
       ELSE /\ payments' = UpdatedPayments(p, CallbackStateUpdate(op, new_status))
            /\ proc' = [proc EXCEPT ![p] =
                    IF TriggersFiscalization(op.operation, new_status) /\ updated # 0
                    THEN [proc[p] EXCEPT
                            !.pc = "cb_fee",
                            !.sid = updated,
                            !.sess = IF updated = proc[p].sid
                                     THEN SetAttrs(@, CallbackStateUpdate(op, new_status))
                                     ELSE payments[updated]]
                    ELSE [Done(p, None) EXCEPT
                            !.sess = SetAttrs(@, CallbackStateUpdate(op, new_status))]]
    /\ UNCHANGED <<fee, receipts, started, now>>

(* _insert_to_fee: INSERT IGNORE INTO FEE and the commit *)
CallbackInsertFee(p) ==
    /\ proc[p].pc = "cb_fee"
    /\ LET row == FeeRow(Len(fee) + 1, proc[p].sess.uid, proc[p].sess.order_id) IN
       IF FeeConflict(fee, row)
       THEN /\ fee' = fee
            /\ proc' = [proc EXCEPT ![p] = Done(p, None)]
       ELSE /\ fee' = Append(fee, row)
            /\ proc' = [proc EXCEPT ![p].pc = "cb_fid"]
    /\ UNCHANGED <<payments, receipts, started, now>>

(* The rows SELECT fid FROM FEE WHERE uid = :uid AND comment = :comment
   AND ticket_id = 'SBP' matches *)
FeeMatches(uid, comment) ==
    {i \in 1..Len(fee) :
        fee[i].uid = uid /\ fee[i].comment = comment /\ fee[i].ticket_id = "SBP"}

(* _insert_to_fee after rowcount > 0: LIMIT 1 without ORDER BY returns
   any one of the matching rows. *)
CallbackSelectFid(p) ==
    /\ proc[p].pc = "cb_fid"
    /\ LET rows == FeeMatches(proc[p].sess.uid, proc[p].sess.order_id) IN
       IF rows = {}
       THEN proc' = [proc EXCEPT ![p] = Done(p, None)]
       ELSE \E i \in rows :
               proc' = [proc EXCEPT ![p] = [proc[p] EXCEPT !.pc = "cb_atol",
                                                           !.fid = fee[i].fid]]
    /\ UNCHANGED <<payments, fee, receipts, started, now>>

(* A fiscalization that lets the failure of the receipt call reach the
   caller of process_callback_payment *)
AfterReceipt_raises(sent) == IF sent THEN None ELSE Exc

(* What process_callback_payment gives back after send_fiscal_receipt
   has returned (sent) or raised AtolException: the exception is caught
   by _process_paid_payment and logged. *)
AfterReceipt(sent) == None

(* send_fiscal_receipt; an AtolException is caught by
   _process_paid_payment and logged. *)
CallbackSendReceipt(p, sent) ==
    /\ proc[p].pc = "cb_atol"
    /\ receipts' = Append(receipts,
            [fid |-> proc[p].fid, order_id |-> proc[p].sess.order_id,
             account |-> proc[p].sess.account])
    /\ proc' = [proc EXCEPT ![p] =
            [Done(p, AfterReceipt(sent)) EXCEPT !.atol = IF sent THEN "ok" ELSE "fail"]]
    /\ UNCHANGED <<payments, fee, started, now>>

(* The response is sent and the session closed *)
Finish(p) ==
    /\ proc[p].pc = "done"
    /\ started < MaxRequests
    /\ proc' = [proc EXCEPT ![p] = Idle]
    /\ UNCHANGED <<payments, fee, receipts, started, now>>

Next ==
    \E p \in Procs :
        \/ \E account \in Accounts, amount \in Amounts :
                StartCreate(p, account, amount)
        \/ CreateLookup(p)
        \/ \E order_id \in OrderIds : StartStatus(p, order_id)
        \/ \E order_id \in OrderIds : StartCancel(p, order_id)
        \/ \E order_id \in OrderIds, amount \in RefundAmounts :
                StartRefund(p, order_id, amount)
        \/ \E out \in Outcomes : Gateway(p, out)
        \/ RefundUpdate(p)
        \/ \E order_id \in OrderIds, order_number \in OrderNumbers,
              operation \in Operations, status \in CallbackStatuses :
                StartCallback(p, order_id, order_number, operation, status)
        \/ CallbackUpdate(p)
        \/ CallbackInsertFee(p)
        \/ CallbackSelectFid(p)
        \/ \E sent \in BOOLEAN : CallbackSendReceipt(p, sent)
        \/ Finish(p)

Spec == Init /\ [][Next]_vars

----------------------------------------------------------------------------
(* The gateway client on its own: each of its four methods called with
   every outcome of the HTTP exchange. *)

ClientInvoke(p, method, out) ==
    /\ proc[p].pc = "idle"
    /\ started < MaxRequests
    /\ started' = started + 1
    /\ proc' = [proc EXCEPT ![p] =
            [Idle EXCEPT !.pc = "done",
                         !.op = [NoOp EXCEPT !.kind = "client", !.operation = method],
                         !.gw = ClientCall(method, out),
                         !.posts = PostAttempts(method, out)]]
    /\ UNCHANGED <<payments, fee, receipts, now>>

ClientReturn(p) ==
    /\ proc[p].pc = "done"
    /\ proc' = [proc EXCEPT ![p] = Idle]
    /\ UNCHANGED <<payments, fee, receipts, started, now>>

GwNext ==
    \E p \in Procs :
        \/ \E method \in Methods, out \in Outcomes : ClientInvoke(p, method, out)
        \/ ClientReturn(p)

GwSpec == Init /\ [][GwNext]_vars

----------------------------------------------------------------------------
(* handle_payment_callback: the route POST /api/v1/callback *)

ALLOWED_CALLBACK_IPS == {"84.252.147.143", "185.157.97.241"}

ClientIps == {"84.252.147.143", "10.0.0.7"}

(* verify_callback_ip: passes when the client's address is allowed, else
   HTTPException 403 *)
verify_callback_ip(client_ip) == client_ip \in ALLOWED_CALLBACK_IPS

(* The dependencies the route declares: Depends(get_payment_service_safe) *)
CallbackDependencies == {"get_payment_service_safe"}

Secrets == {"", "k"}

(* hmac.new(key, json.dumps(json_data, sort_keys=True, ...), sha256)
   .hexdigest(): a value that is fixed by the key and the message. *)
Hmac(key, msg) == <<key, msg>>

Bodies ==
    {Body("o1", "1", "deposited", 1), Body("o9", "zz", "reversed", 0),
     Body(NULL, "1", "deposited", 1), Body("o1", "1", "deposited", 11),
     NotJson}

(* The values of the header X-Signature: absent, the digest under the
   key "k", the digest under another key. *)
Signatures(body) == {<<>>, Hmac("k", body), Hmac("x", body)}

(* _validate_callback_signature *)
_validate_callback_signature(secret, signature, body) ==
    IF secret = "" THEN TRUE
    ELSE IF signature = <<>> THEN FALSE
    ELSE signature = Hmac(secret, body)

(* Field(..., ge=0, le=10) of CallbackPaymentData.status *)
ValidStatus(status) == status >= 0 /\ status <= 10

HttpError(code) == [NoRes EXCEPT !.tag = "HTTPException", !.status = code]

(* handle_payment_callback up to its call of process_callback_payment:
   the dependencies of the route, the parse of the body, the required
   fields, CallbackPaymentData, and the signature, whose failure is
   logged and nothing more. *)
HandleCallback(p, client_ip, secret, signature, body) ==
    /\ proc[p].pc = "idle"
    /\ started < MaxRequests
    /\ started' = started + 1
    /\ LET req == [Idle EXCEPT
                    !.op = [NoOp EXCEPT !.kind = "notification"],
                    !.http = [client_ip |-> client_ip, secret |-> secret,
                              signature |-> signature, body |-> body]]
           fail(code) == [req EXCEPT !.pc = "done", !.res = HttpError(code)]
       IN
       proc' = [proc EXCEPT ![p] =
            IF "verify_callback_ip" \in CallbackDependencies
               /\ ~verify_callback_ip(client_ip)
            THEN fail("403")
            ELSE IF ~body.json THEN fail("400")
            ELSE IF body.mdOrder = NULL \/ body.orderNumber = NULL
                    \/ body.operation = NULL \/ body.status = NoStatus
            THEN fail("400")
            ELSE IF ~ValidStatus(body.status) THEN fail("422")
            ELSE [req EXCEPT !.pc = "cb_call"]]
    /\ UNCHANGED <<payments, fee, receipts, now>>

(* The call of process_callback_payment and what the handler makes of
   it: a call that does not bind raises TypeError, which the handler
   turns into HTTPException 500. *)
CallbackCall(p) ==
    /\ proc[p].pc = "cb_call"
    /\ LET body == proc[p].http.body IN
       proc' = [proc EXCEPT ![p] =
            IF Binds("process_callback_payment")
            THEN [CallbackLookup(body.mdOrder, body.orderNumber,
                                 body.operation, body.status)
                    EXCEPT !.http = proc[p].http]
            ELSE [proc[p] EXCEPT !.pc = "done", !.res = HttpError("500")]]
    /\ UNCHANGED <<payments, fee, receipts, started, now>>

(* The response is sent *)
CallbackRespond(p) ==
    /\ proc[p].pc = "done"
    /\ started < MaxRequests
    /\ proc' = [proc EXCEPT ![p] = Idle]
    /\ UNCHANGED <<payments, fee, receipts, started, now>>

HandlerNext ==
    \E p \in Procs :
        \/ \E client_ip \in ClientIps, secret \in Secrets, body \in Bodies :
              \E signature \in Signatures(body) :
                 HandleCallback(p, client_ip, secret, signature, body)
        \/ CallbackCall(p)
        \/ CallbackRespond(p)

HandlerSpec == Init /\ [][HandlerNext]_vars

----------------------------------------------------------------------------
(* process_callback_payment over a store whose statements can fail *)

(* A process_callback_payment without its "except Exception" *)
AfterCallbackFailure_raises == Exc

(* What process_callback_payment gives back after a statement inside it
   has raised: "except Exception" logs the error and the method ends. *)
AfterCallbackFailure == None

(* The statement p awaits (the UPDATE and its commit, the INSERT into
   FEE, the SELECT of fid) raises: nothing is written. *)
StoreFails(p) ==
    /\ proc[p].pc \in {"cb_upd", "cb_fee", "cb_fid"}
    /\ proc' = [proc EXCEPT ![p] =
            [Done(p, AfterCallbackFailure) EXCEPT
                !.logged = "Failed to process callback payment"]]
    /\ UNCHANGED <<payments, fee, receipts, started, now>>

ReconcileNext ==
    \E p \in Procs :
        \/ \E order_id \in OrderIds, order_number \in OrderNumbers,
              operation \in Operations, status \in CallbackStatuses :
                StartCallback(p, order_id, order_number, operation, status)
        \/ CallbackUpdate(p)
        \/ CallbackInsertFee(p)
        \/ CallbackSelectFid(p)
        \/ \E sent \in BOOLEAN : CallbackSendReceipt(p, sent)
        \/ StoreFails(p)
        \/ Finish(p)

ReconcileSpec == Init /\ [][ReconcileNext]_vars

----------------------------------------------------------------------------
(* create_payment under a clock that advances between and during the
   requests. *)

Tick ==
    /\ now < MaxClock
    /\ now' = now + 1
    /\ UNCHANGED <<payments, fee, receipts, proc, started>>

ClockNext ==
    \/ Tick
    \/ \E p \in Procs :
        \/ \E account \in Accounts, amount \in Amounts :
                CreateLog(p, account, amount)
        \/ CreateLookup(p)
        \/ \E out \in Outcomes : Gateway(p, out)
        \/ Finish(p)

ClockSpec == Init /\ [][ClockNext]_vars

----------------------------------------------------------------------------
(* The two mapping functions on their own, applied to every code and
   name of the input sets. *)

StatusCodes == -2..9

OperationNames ==
    {"created", "approved", "deposited", "reversed", "refunded",
     "declinedByTimeout", "subscriptionCreated", "bogus", "Deposited"}

MapStatus(p, status) ==
    /\ proc[p].pc = "idle"
    /\ started < MaxRequests
    /\ started' = started + 1
    /\ proc' = [proc EXCEPT ![p] =
            [Idle EXCEPT !.pc = "done",
                         !.op = [NoOp EXCEPT !.kind = "map_status", !.status = status],
                         !.res = [NoRes EXCEPT !.tag = "return",
                                    !.status = _map_sberbank_status(status)]]]
    /\ UNCHANGED <<payments, fee, receipts, now>>

MapOperation(p, operation) ==
    /\ proc[p].pc = "idle"
    /\ started < MaxRequests
    /\ started' = started + 1
    /\ proc' = [proc EXCEPT ![p] =
            [Idle EXCEPT !.pc = "done",
                         !.op = [NoOp EXCEPT !.kind = "map_operation",
                                             !.operation = operation],
                         !.res = [NoRes EXCEPT !.tag = "return",
                                    !.status = _map_operation_to_status(operation)]]]
    /\ UNCHANGED <<payments, fee, receipts, now>>

MapReturn(p) ==
    /\ proc[p].pc = "done"
    /\ proc' = [proc EXCEPT ![p] = Idle]
    /\ UNCHANGED <<payments, fee, receipts, started, now>>

MapNext ==
    \E p \in Procs :
        \/ \E status \in StatusCodes : MapStatus(p, status)
        \/ \E operation \in OperationNames : MapOperation(p, operation)
        \/ MapReturn(p)

MapSpec == Init /\ [][MapNext]_vars

----------------------------------------------------------------------------
(* Properties *)

(* The request p is a 'deposited' notification with status 1 whose record
   was found by its providerOrderId. *)
IsDeposit(p) ==
    /\ proc[p].op.kind = "callback"
    /\ proc[p].op.operation = "deposited"
    /\ proc[p].op.status = 1
    /\ proc[p].sid # 0
    /\ proc[p].sess.order_id = proc[p].op.order_id

ReceiptsFor(order_id) == {i \in 1..Len(receipts) : receipts[i].order_id = order_id}

(* C1: a 'deposited' notification replayed for a record that is already
   PAID leaves exactly one ledger entry for (uid, providerOrderId) and at
   most one fiscal receipt call for it. *)
C1_ReplayIdempotent ==
    \A p \in Procs :
        (proc[p].pc = "done" /\ IsDeposit(p) /\ proc[p].was = "PAID")
        => /\ Cardinality(FeeMatches(proc[p].sess.uid, proc[p].sess.order_id)) = 1
           /\ Cardinality(ReceiptsFor(proc[p].sess.order_id)) <= 1

(* C2: whatever the interleaving of the reconciliations, the ledger never
   holds two entries for one (uid, providerOrderId) and the fiscal client
   is never called twice for one providerOrderId: the store rejects the
   second insert. *)
C2_ConcurrentDedupe ==
    /\ \A i, j \in 1..Len(fee) :
          (fee[i].uid = fee[j].uid /\ fee[i].comment = fee[j].comment) => i = j
    /\ \A i, j \in 1..Len(receipts) :
          receipts[i].order_id = receipts[j].order_id => i = j

(* C3: a notification never changes the state of a record that is in a
   terminal state. *)
C3_TerminalMonotone ==
    [][\A p \in Procs :
          (/\ proc[p].pc = "cb_upd"
           /\ proc'[p].pc # "cb_upd"
           /\ payments[proc[p].sid].order_state \in TerminalStates)
          => payments'[proc[p].sid].order_state = payments[proc[p].sid].order_state]_vars

(* C4: the step of a poll or of a notification that turns the state of
   its record into PAID enters the fiscalization path. *)
C4_EveryPaidTransitionFiscalizes ==
    [][\A p \in Procs :
          (/\ proc[p].sid # 0
           /\ proc[p].op.kind \in {"status", "callback"}
           /\ proc[p].sess.order_state # "PAID"
           /\ proc'[p].sid = proc[p].sid
           /\ proc'[p].sess.order_state = "PAID")
          => proc'[p].pc = "cb_fee"]_vars

(* The account no row of CUSTOMER has *)
UnknownAccount == "999999"

(* C5: create for an account that does not exist returns a failure with
   status DECLINED, leaves the record DECLINED and makes no gateway call. *)
C5_UnknownPayerDeclined ==
    [][\A p \in Procs :
          (/\ proc[p].pc = "cr_lookup"
           /\ proc[p].op.account = UnknownAccount
           /\ proc'[p].pc # "cr_lookup")
          => /\ proc'[p].pc = "done"
             /\ proc'[p].res.tag = "return"
             /\ ~proc'[p].res.success
             /\ proc'[p].res.status = "DECLINED"
             /\ payments'[proc[p].sid].order_state = "DECLINED"
             /\ proc'[p].posts = 0]_vars

C5_Witness ==
    \E p \in Procs :
        /\ proc[p].pc = "done"
        /\ proc[p].op.kind = "create"
        /\ proc[p].op.account = UnknownAccount
        /\ proc[p].res.status = "DECLINED"
        /\ payments[proc[p].sid].order_state = "DECLINED"

(* C6: create for an existing account, with a gateway that answers
   errorCode "0" and a QR payload, returns success with status CREATED and
   the payload, and the record is CREATED with the gateway's orderId and
   the payload. *)
C6_CreateSucceeds ==
    \A p \in Procs :
        (/\ proc[p].pc = "done"
         /\ proc[p].op.kind = "create"
         /\ proc[p].op.account # UnknownAccount
         /\ proc[p].gw.kind = "ok")
        => /\ proc[p].res.tag = "return"
           /\ proc[p].res.success
           /\ proc[p].res.status = "CREATED"
           /\ proc[p].res.qr # NULL
           /\ payments[proc[p].sid].order_id = Response([kind |-> "ok", orderStatus |-> 0]).orderId
           /\ payments[proc[p].sid].order_form_url = proc[p].res.qr

(* C7: create with a gateway that answers a business error returns a
   failure with status DECLINED and has stored the error code and message
   on the record it declined. *)
C7_BusinessErrorDeclines ==
    [][\A p \in Procs :
          (/\ proc[p].pc = "gw"
           /\ proc[p].op.kind = "create"
           /\ proc'[p].pc = "done"
           /\ proc'[p].gw.kind = "biz")
          => /\ proc'[p].res.tag = "return"
             /\ ~proc'[p].res.success
             /\ proc'[p].res.status = "DECLINED"
             /\ payments'[proc[p].sid].order_state = "DECLINED"
             /\ payments'[proc[p].sid].error_code = "5"
             /\ payments'[proc[p].sid].error_description = "gw_msg"]_vars

(* C8: a client call whose exchange fails by timeout or connection
   failure is attempted three times before the failure is raised. *)
C8_TransportRetried ==
    \A p \in Procs :
        (/\ proc[p].pc = "done"
         /\ proc[p].op.kind = "client"
         /\ proc[p].gw.kind \in TransportKinds)
        => /\ proc[p].posts = 3
           /\ proc[p].gw.tag # "return"

(* C9: a client call whose exchange ends in a 4xx/5xx status or in a body
   that is not JSON posts exactly once and raises. *)
C9_NoRetryOnStatusError ==
    \A p \in Procs :
        (/\ proc[p].pc = "done"
         /\ proc[p].op.kind = "client"
         /\ proc[p].gw.kind \in {"http_status", "bad_json"})
        => /\ proc[p].posts = 1
           /\ proc[p].gw.tag \in {"SberbankAPIException", "TypeError"}

C9_Witness ==
    /\ \E p \in Procs :
          /\ proc[p].pc = "done" /\ proc[p].op.kind = "client"
          /\ proc[p].op.operation = "create_qr_code"
          /\ proc[p].gw.kind = "http_status" /\ proc[p].posts = 1
    /\ \E p \in Procs :
          /\ proc[p].pc = "done" /\ proc[p].op.kind = "client"
          /\ proc[p].op.operation = "refund_payment"
          /\ proc[p].gw.kind = "bad_json" /\ proc[p].posts = 1

(* C10: when the gateway call of create, cancel or refund fails by timeout
   or connection failure, the operation raises to its caller and no
   record changes. *)
C10_TransportFailureKeepsState ==
    [][\A p \in Procs :
          (/\ proc[p].pc = "gw"
           /\ proc[p].op.kind \in {"create", "cancel", "refund"}
           /\ proc'[p].pc # "gw"
           /\ proc'[p].gw.kind \in TransportKinds)
          => /\ proc'[p].pc = "done"
             /\ proc'[p].res.tag = "PaymentException"
             /\ payments' = payments]_vars

C10_Witness ==
    /\ \E p \in Procs :
          /\ proc[p].pc = "done" /\ proc[p].op.kind = "cancel"
          /\ proc[p].gw.kind = "timeout" /\ proc[p].posts = 1
          /\ proc[p].res.tag = "PaymentException"
          /\ payments[proc[p].sid].order_state = proc[p].was
    /\ \E p \in Procs :
          /\ proc[p].pc = "done" /\ proc[p].op.kind = "refund"
          /\ proc[p].gw.kind = "connect" /\ proc[p].posts = 1
          /\ proc[p].res.tag = "PaymentException"
          /\ payments[proc[p].sid].order_state = proc[p].was

(* The request p is a cancel or a refund of a record it found *)
IsCancelOrRefund(p) ==
    /\ proc[p].op.kind \in {"cancel", "refund"}
    /\ proc[p].sid # 0

(* C11: the step of cancel or refund that receives a business error from
   the gateway records the error code and message on the record and
   leaves the record's state as it was. *)
C11_BusinessErrorKeepsState ==
    [][\A p \in Procs :
          (/\ proc[p].pc = "gw"
           /\ IsCancelOrRefund(p)
           /\ proc'[p].pc # "gw"
           /\ proc'[p].gw.kind = "biz")
          => /\ payments'[proc[p].sid].error_code = "5"
             /\ payments'[proc[p].sid].error_description = "gw_msg"
             /\ payments'[proc[p].sid].order_state
                    = payments[proc[p].sid].order_state]_vars

(* C12: a cancel or a refund whose gateway call ended in a business error
   or in a transport error does not return success to its caller. *)
C12_GatewayErrorIsFailure ==
    \A p \in Procs :
        (/\ proc[p].pc = "done"
         /\ IsCancelOrRefund(p)
         /\ proc[p].gw.kind \in {"biz"} \cup ErrorKinds)
        => ~(proc[p].res.tag = "return" /\ proc[p].res.success)

(* The request p is a notification received by handle_payment_callback *)
IsNotification(p) == proc[p].op.kind = "notification"

(* The notification of p does not carry the digest of its body under the
   configured secret. *)
BadSignature(p) ==
    /\ proc[p].http.secret # ""
    /\ proc[p].http.signature # Hmac(proc[p].http.secret, proc[p].http.body)

Rejected(p) ==
    /\ proc[p].pc = "done"
    /\ proc[p].res.tag = "HTTPException"
    /\ proc[p].res.status \in {"401", "403"}

(* The body of the notification of p has every required field, each of
   them valid. *)
WellFormed(p) ==
    /\ proc[p].http.body.json
    /\ proc[p].http.body.mdOrder # NULL
    /\ proc[p].http.body.orderNumber # NULL
    /\ proc[p].http.body.operation # NULL
    /\ ValidStatus(proc[p].http.body.status)

(* C13: a notification from an address outside the allow-list, its body
   well formed, is answered with an authorization error and never comes
   to the call of process_callback_payment; no record changes. *)
C13_OriginCheck ==
    \A p \in Procs :
        (/\ IsNotification(p)
         /\ WellFormed(p)
         /\ proc[p].http.client_ip \notin ALLOWED_CALLBACK_IPS)
        => /\ Rejected(p)
           /\ payments = <<CreatedRow("100001", 1, "o1")>>

(* C14: with a callback secret configured, a notification, its body well
   formed, whose signature header is missing or is not the digest of its
   body is answered with an authorization error and never comes to the
   call of process_callback_payment. *)
C14_IntegrityCheck ==
    \A p \in Procs :
        (IsNotification(p) /\ WellFormed(p) /\ BadSignature(p)) => Rejected(p)

(* The notification of p is well formed and passes both checks of the
   gate. *)
Accepted(p) ==
    /\ IsNotification(p)
    /\ WellFormed(p)
    /\ proc[p].http.client_ip \in ALLOWED_CALLBACK_IPS
    /\ ~BadSignature(p)

(* C15: a well-formed notification that passes the gate has been handed
   to process_callback_payment when the handler answers, and the answer
   is a success. *)
C15_AcceptedIsReconciled ==
    \A p \in Procs :
        (Accepted(p) /\ proc[p].pc = "done")
        => /\ proc[p].op.order_id = proc[p].http.body.mdOrder
           /\ proc[p].res.tag = "return"
           /\ proc[p].res.success

(* The table of gateway status codes as the specification gives it *)
GatewayStatusTable(status) ==
    IF status \in 0..6
    THEN <<"CREATED", "AUTHORIZED", "PAID", "DECLINED", "REFUNDED",
           "ON_PAYMENT", "DECLINED">>[status + 1]
    ELSE "CREATED"

(* C16: the mapping of gateway status codes gives a state for every
   integer: the table's state for 0..6 and CREATED for any other code. *)
C16_StatusMapIsTable ==
    \A p \in Procs :
        (proc[p].pc = "done" /\ proc[p].op.kind = "map_status")
        => /\ proc[p].res.status \in PaymentState
           /\ proc[p].res.status = GatewayStatusTable(proc[p].op.status)

C16_Witness ==
    /\ \E p \in Procs :
          /\ proc[p].pc = "done" /\ proc[p].op.kind = "map_status"
          /\ proc[p].op.status = 6 /\ proc[p].res.status = "DECLINED"
    /\ \E p \in Procs :
          /\ proc[p].pc = "done" /\ proc[p].op.kind = "map_status"
          /\ proc[p].op.status = 7 /\ proc[p].res.status = "CREATED"

(* The table of operation names as the specification gives it *)
OperationTable ==
    {<<"created", "CREATED">>, <<"approved", "AUTHORIZED">>,
     <<"deposited", "PAID">>, <<"reversed", "DECLINED">>,
     <<"refunded", "REFUNDED">>, <<"declinedByTimeout", "EXPIRED">>,
     <<"subscriptionCreated", "PAID">>}

(* C17: the mapping of operation names gives a state for every name: the
   table's state for the seven names it lists and CREATED for any other
   name. *)
C17_OperationMapIsTable ==
    \A p \in Procs :
        (proc[p].pc = "done" /\ proc[p].op.kind = "map_operation")
        => /\ proc[p].res.status \in PaymentState
           /\ IF \E e \in OperationTable : e[1] = proc[p].op.operation
              THEN <<proc[p].op.operation, proc[p].res.status>> \in OperationTable
              ELSE proc[p].res.status = "CREATED"

C17_Witness ==
    /\ \E p \in Procs :
          /\ proc[p].pc = "done" /\ proc[p].op.kind = "map_operation"
          /\ proc[p].op.operation = "declinedByTimeout"
          /\ proc[p].res.status = "EXPIRED"
    /\ \E p \in Procs :
          /\ proc[p].pc = "done" /\ proc[p].op.kind = "map_operation"
          /\ proc[p].op.operation = "bogus"
          /\ proc[p].res.status = "CREATED"

(* The edges of the state machine of a record *)
Edges ==
    ({"CREATED"} \X {"ON_PAYMENT", "AUTHORIZED", "PAID", "DECLINED", "EXPIRED"})
    \cup ({"AUTHORIZED"} \X {"PAID", "DECLINED"})
    \cup {<<"PAID", "REFUNDED">>}
    \cup ((PaymentState \ TerminalStates) \X {"DECLINED"})

(* C18: every change of the stored state of a record follows an edge of
   the state machine; no record moves backward. *)
C18_ForwardOnly ==
    [][\A i \in 1..Len(payments) :
          payments'[i].order_state # payments[i].order_state
          => <<payments[i].order_state, payments'[i].order_state>> \in Edges]_vars

(* C19: the update of refund_payment that leaves its record REFUNDED is
   made for a record that was PAID when the refund was requested. *)
C19_RefundOnlyFromPaid ==
    [][\A p \in Procs :
          (/\ proc[p].pc = "rf_upd"
           /\ proc'[p].pc = "done"
           /\ payments'[proc[p].sid].order_state = "REFUNDED")
          => proc[p].was = "PAID"]_vars

(* C20: cancel_payment and refund_payment requested for a record in a
   terminal state leave the stored state of the record as it was. *)
C20_TerminalKeptByCancelRefund ==
    [][\A p \in Procs :
          (/\ IsCancelOrRefund(p)
           /\ proc[p].pc \in {"gw", "rf_upd"}
           /\ proc'[p].pc # proc[p].pc
           /\ proc[p].was \in TerminalStates
           /\ payments[proc[p].sid].order_state = proc[p].was)
          => payments'[proc[p].sid].order_state = proc[p].was]_vars

(* C21: the step of get_payment_status that receives errorCode "0" with a
   status whose mapped state differs from the stored state of its record,
   the record not being terminal, stores the mapped state. *)
C21_PollPersistsState ==
    [][\A p \in Procs :
          (/\ proc[p].pc = "gw"
           /\ proc[p].op.kind = "status"
           /\ proc'[p].pc = "done"
           /\ proc'[p].gw.tag = "return"
           /\ proc'[p].gw.body.errorCode = "0"
           /\ payments[proc[p].sid].order_state \notin TerminalStates
           /\ _map_sberbank_status(proc'[p].gw.body.orderStatus)
                 # payments[proc[p].sid].order_state)
          => payments'[proc[p].sid].order_state
                 = _map_sberbank_status(proc'[p].gw.body.orderStatus)]_vars

(* C22: the update made by a notification whose status is not 1 changes
   the error description of its record and nothing else: the state and
   every other column stay, no ledger entry is inserted and no receipt
   call is made, whatever the operation. *)
C22_FailureFlagKeepsState ==
    [][\A p \in Procs :
          (/\ proc[p].pc = "cb_upd"
           /\ proc'[p].pc # "cb_upd"
           /\ proc[p].op.status # 1)
          => /\ proc'[p].pc = "done"
             /\ payments'[proc[p].sid].order_state
                    = payments[proc[p].sid].order_state
             /\ payments' = [payments EXCEPT ![proc[p].sid].error_description
                                = payments'[proc[p].sid].error_description]
             /\ fee' = fee
             /\ receipts' = receipts]_vars

C22_Witness ==
    \E p \in Procs :
        /\ proc[p].pc = "done"
        /\ proc[p].op.kind = "callback"
        /\ proc[p].op.operation = "deposited"
        /\ proc[p].op.status = 0
        /\ proc[p].sid # 0
        /\ payments[proc[p].sid].error_description = "cb_failed"
        /\ payments[proc[p].sid].order_state = proc[p].was
        /\ fee = <<>>

(* C23: when the receipt call fails, the step leaves the ledger and the
   records as they are (the entry inserted for the call is in the ledger,
   a PAID record stays PAID) and process_callback_payment returns
   normally. *)
C23_ReceiptFailureIsolated ==
    [][\A p \in Procs :
          (/\ proc[p].pc = "cb_atol"
           /\ proc'[p].pc # "cb_atol"
           /\ proc'[p].atol = "fail")
          => /\ fee' = fee
             /\ \E i \in 1..Len(fee') : fee'[i].fid = proc[p].fid
             /\ payments' = payments
             /\ proc'[p].pc = "done"
             /\ proc'[p].res.tag = "return"]_vars

C23_Witness ==
    \E p \in Procs :
        /\ proc[p].pc = "done"
        /\ proc[p].op.kind = "callback"
        /\ proc[p].atol = "fail"
        /\ \E i \in 1..Len(fee) : fee[i].fid = proc[p].fid
        /\ payments[proc[p].sid].order_state = "PAID"
        /\ proc[p].res.tag = "return"

(* C24: no step changes the order_id of a record that has one. *)
C24_OrderIdSetOnce ==
    [][\A i \in 1..Len(payments) :
          payments[i].order_id # NULL
          => payments'[i].order_id = payments[i].order_id]_vars

(* A notification that found its record through the order number, under
   another mdOrder, has updated the record. *)
C24_Witness ==
    \E p \in Procs :
        /\ proc[p].pc = "done"
        /\ proc[p].op.kind = "callback"
        /\ proc[p].op.status = 1
        /\ proc[p].sid # 0
        /\ proc[p].op.order_id # payments[proc[p].sid].order_id
        /\ payments[proc[p].sid].order_id = "o1"
        /\ payments[proc[p].sid].order_state # proc[p].was

(* A row that create_payment inserted while the model ran *)
CreatedHere(i) == i \in 2..Len(payments)

(* C25: two distinct records created by create have different rq_uid. *)
C25_RqUidUnique ==
    \A i, j \in 1..Len(payments) :
        (CreatedHere(i) /\ CreatedHere(j) /\ i # j)
        => payments[i].rq_uid # payments[j].rq_uid

(* Another request has committed a state to the record of p since p
   read it: the object of p's session, which follows p's own writes,
   differs from the row. *)
StaleRead(p) ==
    /\ proc[p].sid # 0
    /\ proc[p].pc \notin {"idle", "done"}
    /\ payments[proc[p].sid].order_state # proc[p].sess.order_state

(* C26: once a terminal state has been committed to a record, the write
   of a concurrent operation that read the record before that commit
   does not replace it with another state. *)
C26_CompareAndSet ==
    [][\A p \in Procs :
          (/\ StaleRead(p)
           /\ proc'[p].pc # proc[p].pc
           /\ payments[proc[p].sid].order_state \in TerminalStates)
          => payments'[proc[p].sid].order_state
                = payments[proc[p].sid].order_state]_vars

(* The operation of p succeeds: the notification carries status 1, the
   gateway answered the cancel, refund or poll with errorCode "0". *)
Succeeds(q) ==
    \/ q.op.kind = "callback" /\ q.op.status = 1
    \/ /\ q.op.kind \in {"cancel", "refund", "status"}
       /\ q.gw.tag = "return"
       /\ q.gw.body.errorCode = "0"

(* C27: the step of a successful notification, poll, cancel or refund
   that changes the state of its record leaves the record's error_code
   and error_description null. *)
C27_ErrorsClearedOnChange ==
    [][\A p \in Procs :
          (/\ proc[p].sid # 0
           /\ proc'[p].pc # proc[p].pc
           /\ Succeeds(proc'[p])
           /\ payments'[proc[p].sid].order_state
                # payments[proc[p].sid].order_state)
          => /\ payments'[proc[p].sid].error_code = NULL
             /\ payments'[proc[p].sid].error_description = NULL]_vars

(* C28: the step of create_payment that starts an attempt commits a new
   row in state CREATED, and when create_payment reaches its call of
   create_qr_code that row is in the store; no step removes a row. *)
C28_RecordBeforeCall ==
    [][/\ \A p \in Procs :
            (proc[p].pc = "idle" /\ proc'[p].op.kind = "create")
            => /\ Len(payments') = Len(payments) + 1
               /\ proc'[p].sid = Len(payments')
               /\ payments'[Len(payments')].order_state = "CREATED"
               /\ proc'[p].gw.tag = "none"
       /\ \A p \in Procs :
            (proc[p].op.kind = "create" /\ proc[p].pc = "gw" /\ proc'[p].pc # "gw")
            => /\ proc[p].sid \in 1..Len(payments)
               /\ payments[proc[p].sid].rq_uid = proc[p].sess.rq_uid
       /\ Len(payments') >= Len(payments)]_vars

(* create_payment has made its call of create_qr_code and the row of the
   attempt is in the store. *)
C28_Witness ==
    \E p \in Procs :
        /\ proc[p].op.kind = "create"
        /\ proc[p].pc = "done"
        /\ proc[p].gw.tag # "none"
        /\ proc[p].sid \in 2..Len(payments)
        /\ payments[proc[p].sid].account = proc[p].op.account

(* C29: every receipt call carries the id of the ledger entry that its own
   reconciliation inserted for the record's order_id.  Each reconciliation
   inserts one entry of its own and makes at most one receipt call, so
   the entry of a receipt exists under the receipt's order_id and no two
   receipt calls carry the same id. *)
C29_ReceiptCarriesInsertedEntry ==
    /\ \A i \in 1..Len(receipts) :
          \E k \in 1..Len(fee) :
              /\ fee[k].fid = receipts[i].fid
              /\ fee[k].comment = receipts[i].order_id
    /\ \A i, j \in 1..Len(receipts) :
          receipts[i].fid = receipts[j].fid => i = j

(* The records whose order_id is o *)
WithOrderId(o) == {i \in 1..Len(payments) : payments[i].order_id = o}

(* C30: process_callback_payment takes the record whose order_id is the
   notification's mdOrder when there is one, and only when there is none
   the record whose sbp_id is the number in orderNumber; its update
   changes that record and no other. *)
C30_OrderIdFirst ==
    [][\A p \in Procs :
          /\ (proc[p].pc = "idle" /\ proc'[p].op.kind = "callback")
             => LET op == proc'[p].op
                    n == ParseInt(op.order_number)
                IN
                /\ WithOrderId(op.order_id) # {}
                      => proc'[p].sid \in WithOrderId(op.order_id)
                /\ WithOrderId(op.order_id) = {}
                      => proc'[p].sid = IF n \in 1..Len(payments) THEN n ELSE 0
          /\ (proc[p].pc = "cb_upd" /\ proc'[p].pc # "cb_upd")
             => \A i \in 1..Len(payments) :
                    i # proc[p].sid => payments'[i] = payments[i]]_vars

(* A notification whose mdOrder is the order_id of record 1 and whose
   orderNumber is the sbp_id of record 2 has updated record 1. *)
C30_Witness ==
    \E p \in Procs :
        /\ proc[p].pc = "done"
        /\ proc[p].op.kind = "callback"
        /\ proc[p].op.order_id = "o1"
        /\ proc[p].op.order_number = "2"
        /\ Len(payments) >= 2
        /\ payments[1].order_id = "o1"
        /\ proc[p].sid = 1
        /\ proc[p].op.status = 1
        /\ payments[1].order_state = _map_operation_to_status(proc[p].op.operation)
        /\ payments[1].order_state # proc[p].was
        /\ payments[2].order_state = "CREATED"

(* C31: no step changes the order_sum of a record. *)
C31_AmountImmutable ==
    [][\A i \in 1..Len(payments) :
          payments'[i].order_sum = payments[i].order_sum]_vars

(* A partial refund has turned its record to REFUNDED and the record
   holds the amount it was created with. *)
C31_Witness ==
    \E p \in Procs :
        /\ proc[p].pc = "done"
        /\ proc[p].op.kind = "refund"
        /\ proc[p].op.amount = 4000
        /\ proc[p].res.refund_amount = 4000
        /\ proc[p].sid = 1
        /\ payments[1].order_state = "REFUNDED"
        /\ payments[1].order_sum = 10000

(* C32: get_payment_status, cancel_payment and refund_payment asked for
   an order id that no record has raise PaymentException "Payment not
   found" at once, without a gateway call and without changing a record. *)
C32_NotFound ==
    [][\A p \in Procs :
          (/\ proc[p].pc = "idle"
           /\ proc'[p].op.kind \in {"status", "cancel", "refund"}
           /\ \A i \in 1..Len(payments) :
                 payments[i].order_id # proc'[p].op.order_id)
          => /\ proc'[p].pc = "done"
             /\ proc'[p].res.tag = "PaymentException"
             /\ proc'[p].res.message = "Payment not found"
             /\ proc'[p].posts = 0
             /\ proc'[p].gw.tag = "none"
             /\ payments' = payments]_vars

(* A refund and a poll or cancel have been asked for the unknown order
   id and have raised. *)
C32_Witness ==
    \E p \in Procs :
        /\ proc[p].pc = "done"
        /\ proc[p].op.kind = "refund"
        /\ proc[p].op.order_id = "o9"
        /\ proc[p].res.message = "Payment not found"
        /\ proc[p].posts = 0
        /\ \E q \in Procs :
              /\ proc[q].pc = "done"
              /\ proc[q].op.kind \in {"status", "cancel"}
              /\ proc[q].op.order_id = "o9"
              /\ proc[q].res.message = "Payment not found"

(* C33: the step of a 'deposited' notification that found its record
   through orderNumber, no record having its mdOrder, and turns the record
   to PAID goes on to the ledger insert for that record. *)
C33_FallbackFiscalizes ==
    [][\A p \in Procs :
          (/\ proc[p].pc = "cb_upd"
           /\ proc'[p].pc # "cb_upd"
           /\ proc[p].op.operation = "deposited"
           /\ proc[p].op.status = 1
           /\ WithOrderId(proc[p].op.order_id) = {}
           /\ payments'[proc[p].sid].order_state = "PAID")
          => /\ proc'[p].pc = "cb_fee"
             /\ proc'[p].sid = proc[p].sid]_vars

(* No request but p is under way *)
Alone(p) == \A q \in Procs \ {p} : proc[q].pc \in {"idle", "done"}

(* C34: when get_payment_status returns while no other request is under
   way, the status of its response is the order_state of its record in
   the store. *)
C34_PollReturnsStoredState ==
    [][\A p \in Procs :
          (/\ proc[p].pc = "gw"
           /\ proc[p].op.kind = "status"
           /\ Alone(p)
           /\ proc'[p].pc = "done"
           /\ proc'[p].res.tag = "return")
          => proc'[p].res.status = payments'[proc[p].sid].order_state]_vars

(* C35: when the gateway client raises during get_payment_status, the
   call returns a success response whose status is the state the request
   read from the store, and no record changes. *)
C35_PollSurvivesGatewayFailure ==
    [][\A p \in Procs :
          (/\ proc[p].pc = "gw"
           /\ proc[p].op.kind = "status"
           /\ proc'[p].pc # "gw"
           /\ proc'[p].gw.tag # "return")
          => /\ proc'[p].pc = "done"
             /\ proc'[p].res.tag = "return"
             /\ proc'[p].res.success
             /\ proc'[p].res.status = proc[p].was
             /\ payments' = payments]_vars

(* A poll whose gateway call timed out has returned the stored state of
   its record. *)
C35_Witness ==
    \E p \in Procs :
        /\ proc[p].pc = "done"
        /\ proc[p].op.kind = "status"
        /\ proc[p].gw.kind = "timeout"
        /\ proc[p].gw.tag # "return"
        /\ proc[p].res.success
        /\ proc[p].sid # 0
        /\ proc[p].res.status = payments[proc[p].sid].order_state
        /\ payments[proc[p].sid].error_code = "0"

(* C36: a notification whose mdOrder is the order_id of no record and
   whose orderNumber is not the sbp_id of a record (or is not a number)
   ends at once and changes no record, no ledger entry and makes no
   fiscal call. *)
C36_UnmatchedIsNoOp ==
    [][\A p \in Procs :
          (/\ proc[p].pc = "idle"
           /\ proc'[p].op.kind = "callback"
           /\ WithOrderId(proc'[p].op.order_id) = {}
           /\ ParseInt(proc'[p].op.order_number) \notin 1..Len(payments))
          => /\ proc'[p].pc = "done"
             /\ proc'[p].res.tag = "return"
             /\ proc'[p].sid = 0
             /\ payments' = payments
             /\ fee' = fee
             /\ receipts' = receipts]_vars

(* Two 'deposited' notifications for the unknown mdOrder have ended, one
   with an orderNumber that is not a number, one with a number that no
   record has, and left the store as it was at the start. *)
C36_Witness ==
    /\ \E p \in Procs :
          /\ proc[p].pc = "done"
          /\ proc[p].op.kind = "callback"
          /\ proc[p].op.operation = "deposited"
          /\ proc[p].op.status = 1
          /\ proc[p].op.order_id = "o9"
          /\ proc[p].op.order_number = "zz"
          /\ proc[p].sid = 0
    /\ \E p \in Procs :
          /\ proc[p].pc = "done"
          /\ proc[p].op.kind = "callback"
          /\ proc[p].op.order_id = "o9"
          /\ proc[p].op.order_number = "2"
          /\ proc[p].sid = 0
    /\ Len(payments) = 1
    /\ payments[1].order_state = "CREATED"
    /\ fee = <<>>
    /\ receipts = <<>>

(* C37: create with a gateway that answers errorCode "0" without an SBP
   payload returns a failure with status DECLINED and has stored DECLINED
   and an error description, but not the gateway's orderId, on its
   record. *)
C37_NoPayloadDeclines ==
    [][\A p \in Procs :
          (/\ proc[p].pc = "gw"
           /\ proc[p].op.kind = "create"
           /\ proc'[p].pc = "done"
           /\ proc'[p].gw.kind = "nopayload")
          => /\ proc'[p].res.tag = "return"
             /\ ~proc'[p].res.success
             /\ proc'[p].res.status = "DECLINED"
             /\ payments'[proc[p].sid].order_state = "DECLINED"
             /\ payments'[proc[p].sid].error_description # NULL
             /\ payments'[proc[p].sid].order_id = NULL]_vars

(* C38: however process_callback_payment ends (no record found, update
   applied, fiscalization done, receipt failed, a statement of the store
   raised) it returns None to its caller and raises nothing. *)
C38_NeverRaises ==
    [][\A p \in Procs :
          (/\ proc'[p].op.kind = "callback"
           /\ proc[p].pc # "done"
           /\ proc'[p].pc = "done")
          => proc'[p].res = None]_vars

(* Two 'deposited' notifications for the same record have ended with the
   same result: one whose update failed in the store and was logged, one
   that left the record PAID and sent the receipt. *)
C38_Witness ==
    \E p, q \in Procs :
        /\ proc[p].pc = "done" /\ proc[q].pc = "done"
        /\ proc[p].op.kind = "callback" /\ proc[q].op.kind = "callback"
        /\ proc[p].op.operation = "deposited" /\ proc[p].op.status = 1
        /\ proc[q].op = proc[p].op
        /\ proc[p].logged # NULL
        /\ proc[p].sess.order_state = "CREATED"
        /\ proc[q].logged = NULL
        /\ proc[q].atol = "ok"
        /\ proc[q].sid = proc[p].sid
        /\ payments[proc[q].sid].order_state = "PAID"
        /\ proc[p].res = proc[q].res

====
